---- MODULE Spec2Model ----
(***************************************************************************)
(* Model of pyaqs.AQSFetcher (src/pyaqs.py): a client of the EPA Air       *)
(* Quality Services API.  Each caller (thread) runs one method at a time:  *)
(* the method builds its URL from the fetcher's attributes and its         *)
(* arguments, blocks in requests.get, and on the transport's answer        *)
(* classifies it: a DataFrame returned, a message printed, or an exception *)
(* that leaves the method.                                                 *)
(*                                                                         *)
(* Python strings are TLA+ strings (\o is +, SubSeq is slicing).  A        *)
(* DataFrame is [columns, rows]; a JSON object of the Data array is a      *)
(* sequence of <<key, value>> pairs in the object's key order.             *)
(***************************************************************************)
EXTENDS Integers, Sequences, FiniteSets, TLC

VARIABLES
  email,          \* self.email
  key,            \* self.key
  api_url,        \* self.api_url
  stub,           \* self.stub
  pc,             \* per caller: "idle", "get" (blocked in requests.get), "done"
  op,             \* per caller: the method called
  args,           \* per caller: the arguments of the call in progress
  search_params,  \* per caller: the local search_params after the [:-1] slice
  url,            \* per caller: the URL handed to requests.get
  response,       \* per caller: what requests.get answered
  outcome         \* per caller: what the finished call printed, returned, raised

identity == <<email, key, api_url, stub>>
vars == <<email, key, api_url, stub, pc, op, args, search_params, url,
          response, outcome>>

----------------------------------------------------------------------------
(* Bounds and input sets                                                   *)

MaxParams == 2   \* longest parameter-code list a caller passes
MaxRows == 1     \* largest row count a payload's Header declares

Callers == {"c1", "c2"}

codes_ok == 200  \* requests.codes.ok

StatusCodes == {codes_ok, 201, 204, 404, 500}

Codes == {88101, 44201}
ParamLists == UNION {[1..n -> Codes] : n \in 0..MaxParams}
States == {"06", "37"}

\* Data arrays of a payload: objects with a uniform key set.
AlabamaData ==
  << << <<"code", "01">>, <<"value_represented", "Alabama">> >> >>
DataArrays ==
  { <<>>,
    AlabamaData,
    << << <<"code", "AQI POLLUTANTS">>,
          <<"value_represented", "Pollutants that have an AQI Defined">> >> >>,
    << << <<"state_code", "06">>, <<"code", "037">>,
          <<"value_represented", "Los Angeles">> >>,
       << <<"state_code", "06">>, <<"code", "073">>,
          <<"value_represented", "San Diego">> >> >> }

Headers == {<<>>} \cup {<<[rows |-> n]>> : n \in 0..MaxRows}

\* response.content: bytes that are not JSON, or a JSON object with or
\* without its Header and Data members.
NotJson == [json |-> FALSE, keys |-> {}, Header |-> <<>>, Data |-> <<>>]
JsonBodies ==
  {[json |-> TRUE, keys |-> k, Header |-> h, Data |-> d] :
      k \in SUBSET {"Header", "Data"}, h \in Headers, d \in DataArrays}
Contents ==
  {NotJson} \cup
  {c \in JsonBodies : /\ ("Header" \notin c.keys => c.Header = <<>>)
                      /\ ("Data" \notin c.keys => c.Data = <<>>)}

Responses ==
  {[exc |-> "none", status_code |-> s, content |-> c] :
      s \in StatusCodes, c \in Contents}
\* requests.get raising instead of answering.
ConnectionError ==
  [exc |-> "ConnectionError", status_code |-> 0, content |-> NotJson]
Transport == Responses \cup {ConnectionError}

NoResponse == [exc |-> "none", status_code |-> 0, content |-> NotJson]
NoArgs == [state |-> "", county |-> "", site |-> "", cbsa_code |-> "",
           class |-> "", params |-> <<>>, bdate |-> "", edate |-> ""]
NoOutcome == [raised |-> "none", printed |-> <<>>, returned |-> <<>>]

----------------------------------------------------------------------------
(* Python and pandas operations the methods use                            *)

Digit(d) == SubSeq("0123456789", d + 1, d + 1)

\* str(p) of a non-negative integer code.
RECURSIVE str(_)
str(n) == IF n < 10 THEN Digit(n) ELSE str(n \div 10) \o Digit(n % 10)

\* for p in params: search_params += str(p); search_params += ','
RECURSIVE append_codes(_, _)
append_codes(s, params) ==
  IF params = <<>> THEN s
  ELSE append_codes(s \o str(Head(params)) \o ",", Tail(params))

\* search_params = '&param=' ... ; search_params = search_params[:-1]
param_query_unsliced(params) == append_codes("&param=", params)
param_query_sliced_if_any(params) ==
  LET s == append_codes("&param=", params)
  IN  IF params = <<>> THEN s ELSE SubSeq(s, 1, Len(s) - 1)
param_query(params) ==
  LET s == append_codes("&param=", params)
  IN  SubSeq(s, 1, Len(s) - 1)

\* pd.DataFrame.from_records(json_data), the objects having the same keys.
from_records(json_data) ==
  [columns |-> IF json_data = <<>> THEN <<>>
               ELSE [i \in 1..Len(json_data[1]) |-> json_data[1][i][1]],
   rows |-> [j \in 1..Len(json_data) |->
               [i \in 1..Len(json_data[j]) |-> json_data[j][i][2]]]]

\* df.rename(columns=..., inplace=True)
rename_not_inplace(df, columns) == df
rename(df, columns) ==
  [df EXCEPT !.columns =
     [i \in 1..Len(df.columns) |->
        IF df.columns[i] \in DOMAIN columns THEN columns[df.columns[i]]
        ELSE df.columns[i]]]

NoRename == [c \in {} |-> ""]

\* How a call ends.
Returns(df) == [raised |-> "none", printed |-> <<>>, returned |-> <<df>>]
Prints(msg) == [raised |-> "none", printed |-> <<msg>>, returned |-> <<>>]
Raises(e, printed) == [raised |-> e, printed |-> printed, returned |-> <<>>]

\* assert response.status_code == requests.codes.ok
status_is_2xx(r) == r.status_code \in 200..299
status_ok(r) == r.status_code = codes_ok

\* response = requests.get(url): an exception of the GET leaves the method,
\* the statement being outside every try.
after_get(r, handled) ==
  IF r.exc # "none" THEN Raises(r.exc, <<>>) ELSE handled

\* The try block of get_cbsas and get_state_codes: only AssertionError is
\* caught.
list_outcome(r, columns) ==
  IF ~status_ok(r) THEN Prints("Bad URL!")
  ELSE IF ~r.content.json THEN Raises("JSONDecodeError", <<>>)
  ELSE IF "Data" \notin r.content.keys THEN Raises("KeyError", <<>>)
  ELSE Returns(rename(from_records(r.content.Data), columns))

\* The try block of the methods that read Header[0]['rows']: AssertionError
\* and ValueError are caught, and json.JSONDecodeError is a ValueError.
rows_outcome_rows_first(r, columns) ==
  IF r.content.json /\ "Header" \in r.content.keys /\ r.content.Header # <<>>
     /\ r.content.Header[1].rows = 0
    THEN Prints("No matching data could be found!")
  ELSE IF ~status_ok(r) THEN Prints("Bad URL!")
  ELSE IF ~r.content.json THEN Prints("No matching data could be found!")
  ELSE IF "Header" \notin r.content.keys THEN Raises("KeyError", <<>>)
  ELSE IF "Data" \notin r.content.keys THEN Raises("KeyError", <<>>)
  ELSE IF r.content.Header = <<>> THEN Raises("IndexError", <<>>)
  ELSE Returns(rename(from_records(r.content.Data), columns))
rows_outcome(r, columns) ==
  IF ~status_ok(r) THEN Prints("Bad URL!")
  ELSE IF ~r.content.json THEN Prints("No matching data could be found!")
  ELSE IF "Header" \notin r.content.keys THEN Raises("KeyError", <<>>)
  ELSE IF "Data" \notin r.content.keys THEN Raises("KeyError", <<>>)
  ELSE IF r.content.Header = <<>> THEN Raises("IndexError", <<>>)
  ELSE IF r.content.Header[1].rows = 0
    THEN Prints("No matching data could be found!")
  ELSE Returns(rename(from_records(r.content.Data), columns))

\* get_parameter_classes: the try block holds the assert alone, so after
\* 'Bad URL!' is printed the method goes on to parse the body.
get_parameter_classes_outcome(r) ==
  LET printed == IF status_ok(r) THEN <<>> ELSE <<"Bad URL!">>
  IN  IF ~r.content.json THEN Raises("JSONDecodeError", printed)
      ELSE IF "Data" \notin r.content.keys THEN Raises("KeyError", printed)
      ELSE [raised |-> "none", printed |-> printed,
            returned |-> <<rename(from_records(r.content.Data),
                                  [code |-> "class_name",
                                   value_represented |-> "class_description"])>>]

----------------------------------------------------------------------------
(* The URL each method builds                                              *)

get_cbsas_url == api_url \o "/list/cbsas" \o stub
get_state_codes_url == api_url \o "/list/states" \o stub
get_counties_by_state_url(a) ==
  api_url \o "/list/countiesByState" \o stub \o "&state=" \o a.state
get_sites_by_county_url(a) ==
  api_url \o "/list/sitesByCounty" \o stub
    \o "&state=" \o a.state \o "&county=" \o a.county
get_parameter_classes_url == api_url \o "/list/classes" \o stub
get_parameter_list_by_class_url(a) ==
  api_url \o "/list/parametersByClass" \o stub \o "&pc=" \o a.class
annual_data_by_cbsa_url(a) ==
  api_url \o "/annualData/byCBSA" \o stub \o param_query(a.params)
    \o "&bdate=" \o a.bdate \o "&edate=" \o a.edate
    \o "&cbsa=" \o a.cbsa_code
annual_data_by_site_url(a) ==
  api_url \o "/annualData/bySite" \o stub \o param_query(a.params)
    \o "&state=" \o a.state \o "&county=" \o a.county
    \o "&bdate=" \o a.bdate \o "&edate=" \o a.edate \o "&site=" \o a.site
annual_data_by_county_url(a) ==
  api_url \o "/annualData/byCounty" \o stub \o param_query(a.params)
    \o "&state=" \o a.state \o "&county=" \o a.county
    \o "&bdate=" \o a.bdate \o "&edate=" \o a.edate
annual_data_by_state_url_dates_first(a) ==
  api_url \o "/annualData/byState" \o stub \o param_query(a.params)
    \o "&bdate=" \o a.bdate \o "&edate=" \o a.edate \o "&state=" \o a.state
annual_data_by_state_url(a) ==
  api_url \o "/annualData/byState" \o stub \o param_query(a.params)
    \o "&state=" \o a.state \o "&bdate=" \o a.bdate \o "&edate=" \o a.edate
get_monitors_at_site_url(a) ==
  api_url \o "/monitors/bySite" \o stub \o param_query(a.params)
    \o "&state=" \o a.state \o "&county=" \o a.county
    \o "&bdate=" \o a.bdate \o "&edate=" \o a.edate \o "&site=" \o a.site

----------------------------------------------------------------------------
(* Construction                                                            *)

Emails == {"user@example.org"}
Keys == {"testkey"}
ApiUrls == {"https://aqs.epa.gov/data/api", "http://localhost:8080/api"}

\* AQSFetcher.__init__
Init ==
  /\ email \in Emails
  /\ key \in Keys
  /\ api_url \in ApiUrls
  /\ stub = "?email=" \o email \o "&key=" \o key
  /\ pc = [t \in Callers |-> "idle"]
  /\ op = [t \in Callers |-> "none"]
  /\ args = [t \in Callers |-> NoArgs]
  /\ search_params = [t \in Callers |-> ""]
  /\ url = [t \in Callers |-> ""]
  /\ response = [t \in Callers |-> NoResponse]
  /\ outcome = [t \in Callers |-> NoOutcome]

----------------------------------------------------------------------------
(* The two halves of a call: up to requests.get, and from its answer on    *)

\* Caller t enters method o with arguments a and blocks in requests.get(u).
requests_get(t, o, a, sp, u) ==
  /\ pc[t] # "get"
  /\ pc' = [pc EXCEPT ![t] = "get"]
  /\ op' = [op EXCEPT ![t] = o]
  /\ args' = [args EXCEPT ![t] = a]
  /\ search_params' = [search_params EXCEPT ![t] = sp]
  /\ url' = [url EXCEPT ![t] = u]
  /\ response' = [response EXCEPT ![t] = NoResponse]
  /\ outcome' = [outcome EXCEPT ![t] = NoOutcome]

Waiting(t, o) == pc[t] = "get" /\ op[t] = o

\* The transport answers r and the method ends as out; its locals are gone.
finish(t, r, out) ==
  /\ pc' = [pc EXCEPT ![t] = "done"]
  /\ response' = [response EXCEPT ![t] = r]
  /\ outcome' = [outcome EXCEPT ![t] = out]
  /\ args' = [args EXCEPT ![t] = NoArgs]
  /\ search_params' = [search_params EXCEPT ![t] = ""]
  /\ url' = [url EXCEPT ![t] = ""]
  /\ UNCHANGED op

Bdates == {"20200101"}
Edates == {"20201231"}
Counties == {"037"}
Sites == {"1103"}
Cbsas == {"31080"}
Classes == {"AQI POLLUTANTS"}

----------------------------------------------------------------------------
(* The methods                                                             *)

get_cbsas(t) ==
  \/ /\ requests_get(t, "get_cbsas", NoArgs, "", get_cbsas_url)
     /\ UNCHANGED identity
  \/ /\ Waiting(t, "get_cbsas")
     /\ \E r \in Transport :
          finish(t, r, after_get(r,
            list_outcome(r, [value_represented |-> "cbsa_name"])))
     /\ UNCHANGED identity

get_state_codes(t) ==
  \/ /\ requests_get(t, "get_state_codes", NoArgs, "", get_state_codes_url)
     /\ UNCHANGED identity
  \/ /\ Waiting(t, "get_state_codes")
     /\ \E r \in Transport :
          finish(t, r, after_get(r,
            list_outcome(r, [value_represented |-> "state_name"])))
     /\ UNCHANGED identity

get_counties_by_state(t) ==
  \/ /\ \E state \in States :
          LET a == [NoArgs EXCEPT !.state = state]
          IN  requests_get(t, "get_counties_by_state", a, "",
                           get_counties_by_state_url(a))
     /\ UNCHANGED identity
  \/ /\ Waiting(t, "get_counties_by_state")
     /\ \E r \in Transport :
          finish(t, r, after_get(r,
            rows_outcome(r, [value_represented |-> "county_name"])))
     /\ UNCHANGED identity

get_sites_by_county(t) ==
  \/ /\ \E state \in States, county \in Counties :
          LET a == [NoArgs EXCEPT !.state = state, !.county = county]
          IN  requests_get(t, "get_sites_by_county", a, "",
                           get_sites_by_county_url(a))
     /\ UNCHANGED identity
  \/ /\ Waiting(t, "get_sites_by_county")
     /\ \E r \in Transport :
          finish(t, r, after_get(r,
            rows_outcome(r, [value_represented |-> "site_name"])))
     /\ UNCHANGED identity

get_parameter_classes(t) ==
  \/ /\ requests_get(t, "get_parameter_classes", NoArgs, "",
                     get_parameter_classes_url)
     /\ UNCHANGED identity
  \/ /\ Waiting(t, "get_parameter_classes")
     /\ \E r \in Transport :
          finish(t, r, after_get(r, get_parameter_classes_outcome(r)))
     /\ UNCHANGED identity

get_parameter_list_by_class(t) ==
  \/ /\ \E class \in Classes :
          LET a == [NoArgs EXCEPT !.class = class]
          IN  requests_get(t, "get_parameter_list_by_class", a, "",
                           get_parameter_list_by_class_url(a))
     /\ UNCHANGED identity
  \/ /\ Waiting(t, "get_parameter_list_by_class")
     /\ \E r \in Transport :
          finish(t, r, after_get(r,
            rows_outcome(r, [value_represented |-> "parameter_description"])))
     /\ UNCHANGED identity

annual_data_by_cbsa(t) ==
  \/ /\ \E cbsa_code \in Cbsas, params \in ParamLists,
          bdate \in Bdates, edate \in Edates :
          LET a == [NoArgs EXCEPT !.cbsa_code = cbsa_code, !.params = params,
                                  !.bdate = bdate, !.edate = edate]
          IN  requests_get(t, "annual_data_by_cbsa", a, param_query(params),
                           annual_data_by_cbsa_url(a))
     /\ UNCHANGED identity
  \/ /\ Waiting(t, "annual_data_by_cbsa")
     /\ \E r \in Transport :
          finish(t, r, after_get(r, rows_outcome(r, NoRename)))
     /\ UNCHANGED identity

annual_data_by_site(t) ==
  \/ /\ \E state \in States, county \in Counties, site \in Sites,
          params \in ParamLists, bdate \in Bdates, edate \in Edates :
          LET a == [NoArgs EXCEPT !.state = state, !.county = county,
                                  !.site = site, !.params = params,
                                  !.bdate = bdate, !.edate = edate]
          IN  requests_get(t, "annual_data_by_site", a, param_query(params),
                           annual_data_by_site_url(a))
     /\ UNCHANGED identity
  \/ /\ Waiting(t, "annual_data_by_site")
     /\ \E r \in Transport :
          finish(t, r, after_get(r, rows_outcome(r, NoRename)))
     /\ UNCHANGED identity

annual_data_by_county(t) ==
  \/ /\ \E state \in States, county \in Counties,
          params \in ParamLists, bdate \in Bdates, edate \in Edates :
          LET a == [NoArgs EXCEPT !.state = state, !.county = county,
                                  !.params = params,
                                  !.bdate = bdate, !.edate = edate]
          IN  requests_get(t, "annual_data_by_county", a, param_query(params),
                           annual_data_by_county_url(a))
     /\ UNCHANGED identity
  \/ /\ Waiting(t, "annual_data_by_county")
     /\ \E r \in Transport :
          finish(t, r, after_get(r, rows_outcome(r, NoRename)))
     /\ UNCHANGED identity

\* A variant that keeps the query on the object: self.stub += search_params.
annual_data_by_state_appends_to_stub(t) ==
  \/ /\ \E state \in States, params \in ParamLists,
          bdate \in Bdates, edate \in Edates :
          LET a == [NoArgs EXCEPT !.state = state, !.params = params,
                                  !.bdate = bdate, !.edate = edate]
          IN  /\ requests_get(t, "annual_data_by_state", a,
                              param_query(params), annual_data_by_state_url(a))
              /\ stub' = stub \o param_query(params)
     /\ UNCHANGED <<email, key, api_url>>
  \/ /\ Waiting(t, "annual_data_by_state")
     /\ \E r \in Transport :
          finish(t, r, after_get(r, rows_outcome(r, NoRename)))
     /\ UNCHANGED identity

annual_data_by_state(t) ==
  \/ /\ \E state \in States, params \in ParamLists,
          bdate \in Bdates, edate \in Edates :
          LET a == [NoArgs EXCEPT !.state = state, !.params = params,
                                  !.bdate = bdate, !.edate = edate]
          IN  requests_get(t, "annual_data_by_state", a, param_query(params),
                           annual_data_by_state_url(a))
     /\ UNCHANGED identity
  \/ /\ Waiting(t, "annual_data_by_state")
     /\ \E r \in Transport :
          finish(t, r, after_get(r, rows_outcome(r, NoRename)))
     /\ UNCHANGED identity

get_monitors_at_site(t) ==
  \/ /\ \E state \in States, county \in Counties, site \in Sites,
          params \in ParamLists, bdate \in Bdates, edate \in Edates :
          LET a == [NoArgs EXCEPT !.state = state, !.county = county,
                                  !.site = site, !.params = params,
                                  !.bdate = bdate, !.edate = edate]
          IN  requests_get(t, "get_monitors_at_site", a, param_query(params),
                           get_monitors_at_site_url(a))
     /\ UNCHANGED identity
  \/ /\ Waiting(t, "get_monitors_at_site")
     /\ \E r \in Transport :
          finish(t, r, after_get(r, rows_outcome(r, NoRename)))
     /\ UNCHANGED identity

Step(t) ==
  \/ get_cbsas(t)
  \/ get_state_codes(t)
  \/ get_counties_by_state(t)
  \/ get_sites_by_county(t)
  \/ get_parameter_classes(t)
  \/ get_parameter_list_by_class(t)
  \/ annual_data_by_cbsa(t)
  \/ annual_data_by_site(t)
  \/ annual_data_by_county(t)
  \/ annual_data_by_state(t)
  \/ get_monitors_at_site(t)

\* One caller issuing calls one after the other, over all the inputs.
MainCaller == "c1"
Next == Step(MainCaller)
Spec == Init /\ [][Next]_vars

\* Two callers on the same fetcher, their calls overlapping, over a sample of
\* the inputs: one base URL, lists of at most one code, one state, and the
\* answers 200 and 404 with a body that is not JSON or the Alabama payload.
SampleBody ==
  [json |-> TRUE, keys |-> {"Header", "Data"}, Header |-> <<[rows |-> 1]>>,
   Data |-> AlabamaData]
SampleInputs(t) ==
  /\ Len(args[t].params) <= 1
  /\ args[t].state \in {"", "06"}
  /\ response[t].status_code \in {0, codes_ok, 404}
  /\ response[t].content \in {NotJson, SampleBody}
InitConc == Init /\ api_url = "https://aqs.epa.gov/data/api"
NextConc ==
  \E t \in Callers :
    \/ get_cbsas(t) /\ SampleInputs(t)'
    \/ get_state_codes(t) /\ SampleInputs(t)'
    \/ get_counties_by_state(t) /\ SampleInputs(t)'
    \/ get_sites_by_county(t) /\ SampleInputs(t)'
    \/ get_parameter_classes(t) /\ SampleInputs(t)'
    \/ get_parameter_list_by_class(t) /\ SampleInputs(t)'
    \/ annual_data_by_cbsa(t) /\ SampleInputs(t)'
    \/ annual_data_by_site(t) /\ SampleInputs(t)'
    \/ annual_data_by_county(t) /\ SampleInputs(t)'
    \/ annual_data_by_state(t) /\ SampleInputs(t)'
    \/ get_monitors_at_site(t) /\ SampleInputs(t)'
SpecConc == InitConc /\ [][NextConc]_vars

----------------------------------------------------------------------------
(* Vocabulary of the properties                                            *)

ReferenceListOps ==
  {"get_cbsas", "get_state_codes", "get_counties_by_state",
   "get_sites_by_county", "get_parameter_classes",
   "get_parameter_list_by_class"}
ParamOps ==
  {"annual_data_by_cbsa", "annual_data_by_site", "annual_data_by_county",
   "annual_data_by_state", "get_monitors_at_site"}
RowCountOps ==
  (ReferenceListOps \cup ParamOps)
    \ {"get_cbsas", "get_state_codes", "get_parameter_classes"}

Done(t) == pc[t] = "done"
\* The call is over and the transport gave it a response (status and body).
Answered(t) == Done(t) /\ response[t].exc = "none"
InGet(t) == pc[t] = "get"

Is2xx(status) == status >= 200 /\ status <= 299
TransportErrorReported(t) ==
  \E i \in 1..Len(outcome[t].printed) : outcome[t].printed[i] = "Bad URL!"
NoMatchingDataReported(t) ==
  \E i \in 1..Len(outcome[t].printed) :
    outcome[t].printed[i] = "No matching data could be found!"
FailureReported(t) == outcome[t].printed # <<>>
TableReturned(t) == outcome[t].returned # <<>>
ReturnedNormally(t) == outcome[t].raised = "none"
OnlyTransportError(t) ==
  /\ outcome[t].printed = <<"Bad URL!">>
  /\ ~TableReturned(t)
  /\ ReturnedNormally(t)
OnlyNoMatchingData(t) ==
  /\ outcome[t].printed = <<"No matching data could be found!">>
  /\ ~TableReturned(t)
  /\ ReturnedNormally(t)

DeclaresRows(c) == c.json /\ "Header" \in c.keys /\ c.Header # <<>>
DeclaresZeroRows(c) == DeclaresRows(c) /\ c.Header[1].rows = 0

StartsWith(s, p) == Len(s) >= Len(p) /\ SubSeq(s, 1, Len(p)) = p
Contains(s, sub) ==
  \E i \in 1..(Len(s) - Len(sub) + 1) : SubSeq(s, i, i + Len(sub) - 1) = sub
LastChar(s) == IF s = "" THEN "" ELSE SubSeq(s, Len(s), Len(s))

\* ','.join(str(p) for p in params), for a non-empty list.
RECURSIVE JoinCodes(_)
JoinCodes(params) ==
  IF Len(params) = 1 THEN str(params[1])
  ELSE JoinCodes(SubSeq(params, 1, Len(params) - 1))
         \o "," \o str(params[Len(params)])

EndpointPath(o) ==
  CASE o = "get_cbsas" -> "/list/cbsas"
    [] o = "get_state_codes" -> "/list/states"
    [] o = "get_counties_by_state" -> "/list/countiesByState"
    [] o = "get_sites_by_county" -> "/list/sitesByCounty"
    [] o = "get_parameter_classes" -> "/list/classes"
    [] o = "get_parameter_list_by_class" -> "/list/parametersByClass"
    [] o = "annual_data_by_cbsa" -> "/annualData/byCBSA"
    [] o = "annual_data_by_site" -> "/annualData/bySite"
    [] o = "annual_data_by_county" -> "/annualData/byCounty"
    [] o = "annual_data_by_state" -> "/annualData/byState"
    [] o = "get_monitors_at_site" -> "/monitors/bySite"

RenamedValueColumn(o) ==
  CASE o = "get_cbsas" -> "cbsa_name"
    [] o = "get_state_codes" -> "state_name"
    [] o = "get_counties_by_state" -> "county_name"
    [] o = "get_sites_by_county" -> "site_name"
    [] o = "get_parameter_classes" -> "class_description"
    [] o = "get_parameter_list_by_class" -> "parameter_description"

----------------------------------------------------------------------------
(* Properties                                                              *)

\* C1: in every method, a response with a non-success status ends the call
\* with TransportError reported and no table returned, whatever the body.
C1_NonSuccessIsTransportErrorOnly ==
  \A t \in Callers :
    (Answered(t) /\ ~Is2xx(response[t].status_code)) => OnlyTransportError(t)

\* C2: every call produces exactly one of a table and a failure report, and
\* a table only when the status was OK and Header[0].rows is non-zero.
C2_ExactlyOneOutcome ==
  \A t \in Callers :
    Done(t) =>
      /\ TableReturned(t) # FailureReported(t)
      /\ TableReturned(t) =>
           /\ response[t].status_code = codes_ok
           /\ DeclaresRows(response[t].content)
           /\ response[t].content.Header[1].rows # 0

C4_TransportFailureNeverRaises ==
  \A t \in Callers :
    (Done(t) /\ (response[t].exc # "none"
                   \/ ~Is2xx(response[t].status_code))) =>
      (ReturnedNormally(t) /\ FailureReported(t))

\* C5 as stated: TransportError is reported exactly when the status is not
\* a 2xx status.
C5_TransportErrorIffNot2xx ==
  \A t \in Callers :
    Answered(t) =>
      (TransportErrorReported(t) <=> ~Is2xx(response[t].status_code))

\* C5 amended: TransportError is reported exactly when the status is not
\* 200; every other status, 201 and 204 included, is reported as a
\* TransportError and only 200 goes on to the payload.
C5_TransportErrorIffNot200 ==
  \A t \in Callers :
    Answered(t) =>
      (TransportErrorReported(t) <=> response[t].status_code # 200)

C5_Witness ==
  \E t \in Callers :
    /\ Answered(t) /\ op[t] = "annual_data_by_state"
    /\ response[t].status_code = 204
    /\ response[t].content.Data # <<>>
    /\ OnlyTransportError(t)

\* C6: for a non-empty list of codes the fragment built is '&param=' and
\* the codes joined by single commas in the caller's order, and that is the
\* fragment in the URL requested.
C6_ParamFragmentIsCommaJoin ==
  \A t \in Callers :
    (InGet(t) /\ op[t] \in ParamOps /\ args[t].params # <<>>) =>
      /\ search_params[t] = "&param=" \o JoinCodes(args[t].params)
      /\ Contains(url[t], "&param=" \o JoinCodes(args[t].params) \o "&")

C6_Witness ==
  \E t \in Callers :
    /\ InGet(t) /\ op[t] = "get_monitors_at_site"
    /\ args[t].params = <<88101, 44201>>
    /\ search_params[t] = "&param=88101,44201"

\* C7: the URL requested is the base URL, the method's endpoint path, the
\* authentication fragment with email and key, then the query parameters;
\* for annual_data_by_state these are param, state, bdate, edate in that
\* order, the dates as passed.
C7_UrlLayout ==
  \A t \in Callers :
    InGet(t) =>
      LET prefix == api_url \o EndpointPath(op[t])
                      \o "?email=" \o email \o "&key=" \o key
      IN  /\ StartsWith(url[t], prefix)
          /\ op[t] \in {"get_cbsas", "get_state_codes",
                        "get_parameter_classes"} => url[t] = prefix
          /\ op[t] = "annual_data_by_state" =>
               url[t] = prefix \o search_params[t]
                          \o "&state=" \o args[t].state
                          \o "&bdate=" \o args[t].bdate
                          \o "&edate=" \o args[t].edate

C7_Witness ==
  \E t \in Callers :
    /\ InGet(t) /\ op[t] = "annual_data_by_state"
    /\ url[t] = "https://aqs.epa.gov/data/api/annualData/byState"
                  \o "?email=user@example.org&key=testkey"
                  \o "&param=88101&state=06&bdate=20200101&edate=20201231"

\* C8: a table returned by a reference-list method has no column named
\* value_represented: that column carries the method's own name (and code
\* is class_name in get_parameter_classes), every other column name and
\* every cell is the payload's, one row per element of Data in its order.
C8_RenameIsTotal ==
  \A t \in Callers :
    (Done(t) /\ op[t] \in ReferenceListOps /\ TableReturned(t)) =>
      LET df == outcome[t].returned[1]
          data == response[t].content.Data
      IN  /\ Len(df.rows) = Len(data)
          /\ \A i \in 1..Len(df.columns) : df.columns[i] # "value_represented"
          /\ \A j \in 1..Len(data) :
               /\ Len(df.columns) = Len(data[j])
               /\ Len(df.rows[j]) = Len(data[j])
               /\ \A i \in 1..Len(data[j]) :
                    /\ df.rows[j][i] = data[j][i][2]
                    /\ df.columns[i] =
                         IF data[j][i][1] = "value_represented"
                           THEN RenamedValueColumn(op[t])
                         ELSE IF data[j][i][1] = "code"
                                 /\ op[t] = "get_parameter_classes"
                           THEN "class_name"
                         ELSE data[j][i][1]

C8_Witness ==
  \E t \in Callers :
    /\ Done(t) /\ op[t] = "get_state_codes"
    /\ response[t].content.Data = AlabamaData
    /\ outcome[t].returned =
         << [columns |-> <<"code", "state_name">>,
             rows |-> << <<"01", "Alabama">> >>] >>

\* C9: no step of any caller changes email, key, api_url or the
\* authentication fragment, and what a call requests and how it ends is
\* fixed by its own method, arguments and response: two callers with the
\* same call request the same URL, and with the same response end alike.
SameCallSameResult ==
  \A t1, t2 \in Callers :
    /\ (InGet(t1) /\ InGet(t2) /\ op[t1] = op[t2] /\ args[t1] = args[t2])
         => url[t1] = url[t2]
    /\ (Done(t1) /\ Done(t2) /\ op[t1] = op[t2]
          /\ response[t1] = response[t2])
         => outcome[t1] = outcome[t2]
C9_IdentityNeverChanges ==
  [][/\ email' = email
     /\ key' = key
     /\ api_url' = api_url
     /\ stub' = stub
     /\ SameCallSameResult']_vars

C9_Witness ==
  /\ pc["c1"] = "get" /\ op["c1"] = "annual_data_by_state"
  /\ args["c1"].params # <<>>
  /\ pc["c2"] = "done" /\ op["c2"] = "annual_data_by_state"
  /\ TableReturned("c2")
  /\ stub = "?email=user@example.org&key=testkey"

\* C10 as stated: with an empty list of codes the param fragment ends in a
\* dangling separator, the key param followed by '=' or ',' and no code.
C10_EmptyListLeavesSeparator ==
  \A t \in Callers :
    (InGet(t) /\ op[t] \in ParamOps /\ args[t].params = <<>>) =>
      (/\ StartsWith(search_params[t], "&param")
       /\ LastChar(search_params[t]) \in {"=", ","})

\* C10 amended: with an empty list the slice takes the '=' away, so the
\* fragment is the bare key '&param', with no '=' and no value, directly
\* followed by the next parameter, and the request is issued with it.
C10_EmptyListLeavesBareKey ==
  \A t \in Callers :
    (InGet(t) /\ op[t] \in ParamOps /\ args[t].params = <<>>) =>
      /\ search_params[t] = "&param"
      /\ Contains(url[t], "&param&")
      /\ ~Contains(url[t], "param=")

C10_Witness ==
  \E t \in Callers :
    /\ InGet(t) /\ op[t] = "annual_data_by_cbsa"
    /\ args[t].params = <<>>
    /\ url[t] = "https://aqs.epa.gov/data/api/annualData/byCBSA"
                  \o "?email=user@example.org&key=testkey"
                  \o "&param&bdate=20200101&edate=20201231&cbsa=31080"

====
